---- MODULE Spec2Model ----
(***************************************************************************)
(* A model of futures-turnstyle (src/src/lib.rs): a Turnstyle is a shared  *)
(* FIFO queue of oneshot senders plus an atomic counter; join() appends a  *)
(* sender and returns the Waiter holding the receiver; turn() pops the     *)
(* head under the mutex, then (outside the mutex) fetches-and-increments   *)
(* the counter and sends the fetched value; dropping any handle runs       *)
(* `while self.turn() {}`.                                                 *)
(*                                                                         *)
(* Every Turnstyle handle (the value returned by new() or by clone()) is   *)
(* used by one execution context, whose position inside turn()/drop() is   *)
(* pc[h]. Slots are numbered in the order join() pushes them: slot k is    *)
(* the k-th join.                                                          *)
(***************************************************************************)
EXTENDS Integers, Sequences, FiniteSets, TLC

\* Bounds of the model: the joins made in sequential use, the joins made in
\* concurrent use, and the handles (new() plus the clones).
MaxJoins == 3
MaxConcJoins == 2
MaxHandles == 2

Handles == 1..MaxHandles
Slots == 1..MaxJoins

\* Option::None for the popped sender (slots are numbered from 1).
None == 0
\* The empty data cell of a oneshot channel (delivered values are >= 0).
NoValue == -1

VARIABLES
    waiters,    \* the VecDeque of queued senders, as slot numbers, head first
    version,    \* the AtomicUsize counter
    tx,         \* per slot, the sender half: "none" (not created), "queued",
                \* "held" (popped, owned by a running turn), "sent" (send
                \* returned Ok), "failed" (send returned Err), "dropped"
                \* (destroyed without send having been called)
    rx,         \* per slot, the Waiter: "none", "alive", "discarded"
    data,       \* per slot, the value stored in the channel, or NoValue
    assigned,   \* per slot, the value fetch_add returned for it, or NoValue
    sends,      \* per slot, how many times send was called on its sender
    hstate,     \* per handle: "unused", "alive", "dropped"
    pc,         \* per handle: "idle", "popped", "versioned", "panicked"
    w,          \* per handle, turn's local `waiter` (a slot, or None)
    indrop,     \* per handle, TRUE while Drop::drop's loop is running
    unwinding,  \* per handle, TRUE when that drop runs during a panic's unwinding
    aborted,    \* TRUE once a panic during unwinding has aborted the process
    returned,   \* observed: what the latest call returned, when that call
                \* was a turn() or a poll()
    turned,     \* observed: how many turn() calls have returned true
    drained,    \* observed: per handle, how many turns of its drop loop have
                \* returned true
    lock,       \* the Mutex around the queue: who holds it and in which call
    poisoned    \* TRUE once a context has panicked while holding the Mutex

\* The program's state.
pvars == <<waiters, version, tx, rx, data, assigned, sends, hstate, pc, w, indrop,
           unwinding, aborted>>

\* What the caller of the sequential specification observes of the calls.
obs == <<returned, turned, drained>>

\* The Mutex, for the specification that takes and releases it in steps of
\* their own.
held == <<lock, poisoned>>

vars == <<pvars, obs, held>>

\* The Mutex is free.
NoLock == [holder |-> None, call |-> "none"]

\* Handle h holds the Mutex inside call c ("join" or "turn").
LockedBy(h, c) == [holder |-> h, call |-> c]

\* The latest call was neither a turn() nor a poll(), or there was none.
NoReturn == [call |-> "none", slot |-> None, ret |-> "none", val |-> NoValue]

\* What turn() returns: "true", "false", or "panic" when it does not return.
TurnReturned(r) == [call |-> "turn", slot |-> None, ret |-> r, val |-> NoValue]

\* What Waiter::poll returns on the Waiter of slot i.
NotReady(i) == [call |-> "poll", slot |-> i, ret |-> "NotReady", val |-> NoValue]
PollErr(i) == [call |-> "poll", slot |-> i, ret |-> "Err", val |-> NoValue]
Ready(i, v) == [call |-> "poll", slot |-> i, ret |-> "Ready", val |-> v]

\* Turnstyle::new: one handle, an empty queue, counter at 0.
Init ==
    /\ waiters = <<>>
    /\ version = 0
    /\ tx = [i \in Slots |-> "none"]
    /\ rx = [i \in Slots |-> "none"]
    /\ data = [i \in Slots |-> NoValue]
    /\ assigned = [i \in Slots |-> NoValue]
    /\ sends = [i \in Slots |-> 0]
    /\ hstate = [h \in Handles |-> IF h = 1 THEN "alive" ELSE "unused"]
    /\ pc = [h \in Handles |-> "idle"]
    /\ w = [h \in Handles |-> None]
    /\ indrop = [h \in Handles |-> FALSE]
    /\ unwinding = [h \in Handles |-> FALSE]
    /\ aborted = FALSE
    /\ returned = NoReturn
    /\ turned = 0
    /\ drained = [h \in Handles |-> 0]
    /\ lock = NoLock
    /\ poisoned = FALSE

\* The number of joins made so far; the next join creates slot Joined + 1.
Joined == Cardinality({i \in Slots : tx[i] # "none"})

\* A handle on which the caller may start join, turn, clone or drop.
Usable(h) == ~aborted /\ hstate[h] = "alive" /\ pc[h] = "idle" /\ ~indrop[h]

\* Mutant of PushBack: the pushed sender is lost.
PushLost(q, i) == q

\* Mutant of PushBack: the sender is pushed at the head.
PushFront(q, i) == <<i>> \o q

\* VecDeque::push_back.
PushBack(q, i) == Append(q, i)

\* Mutant of PopFront: the tail is popped instead of the head.
PopBack(q) ==
    IF q = <<>> THEN [waiter |-> None, rest |-> q]
    ELSE [waiter |-> q[Len(q)], rest |-> SubSeq(q, 1, Len(q) - 1)]

\* Mutant of PopFront: the head is read but left in the queue.
PopPeek(q) ==
    IF q = <<>> THEN [waiter |-> None, rest |-> q]
    ELSE [waiter |-> Head(q), rest |-> q]

\* Mutant of PopFront: an empty queue yields slot 1 instead of None.
PopPhantom(q) ==
    IF q = <<>> THEN [waiter |-> 1, rest |-> q]
    ELSE [waiter |-> Head(q), rest |-> Tail(q)]

\* VecDeque::pop_front: the popped element, or None, and the remaining queue.
PopFront(q) ==
    IF q = <<>> THEN [waiter |-> None, rest |-> q]
    ELSE [waiter |-> Head(q), rest |-> Tail(q)]

\* Mutant of FetchAdd: the counter is incremented by two.
FetchAddTwo(v) == v + 2

\* Mutant of FetchAdd: the counter is not incremented.
FetchAddZero(v) == v

\* AtomicUsize::fetch_add(1): the stored value after the call.
FetchAdd(v) == v + 1

\* oneshot::Sender::send succeeds exactly when the receiver still exists.
SendOk(i) == rx[i] = "alive"

\* Mutant of LoopAgain: `if self.turn() {}`, a single turn.
LoopOnce(r) == FALSE

\* `while self.turn() {}`: the loop goes on after a turn that returned true.
LoopAgain(r) == r

\* derive(Clone): a new handle on the same Arc'ed queue and counter. Handles
\* are numbered in the order they are created.
Clone(h, g) ==
    /\ Usable(h)
    /\ hstate[g] = "unused"
    /\ \A f \in Handles : f < g => hstate[f] # "unused"
    /\ hstate' = [hstate EXCEPT ![g] = "alive"]
    /\ UNCHANGED <<waiters, version, tx, rx, data, assigned, sends, pc, w, indrop,
                   unwinding, aborted>>

\* Turnstyle::join: a new channel, its sender pushed at the tail under the lock.
Join(h) ==
    /\ Usable(h)
    /\ Joined < MaxJoins
    /\ LET i == Joined + 1 IN
        /\ waiters' = PushBack(waiters, i)
        /\ tx' = [tx EXCEPT ![i] = "queued"]
        /\ rx' = [rx EXCEPT ![i] = "alive"]
    /\ UNCHANGED <<version, data, assigned, sends, hstate, pc, w, indrop,
                   unwinding, aborted>>

\* The handles other than h that still hold the Arc.
OtherHolders(h) == {g \in Handles \ {h} : hstate[g] = "alive"}

\* The senders after handle h's fields are dropped: the last Arc destroys the
\* VecDeque and with it every sender still queued.
SendersAfterRelease(h, t, q) ==
    IF OtherHolders(h) = {}
    THEN [i \in Slots |-> IF \E k \in 1..Len(q) : q[k] = i THEN "dropped" ELSE t[i]]
    ELSE t

\* The queue after handle h's fields are dropped.
QueueAfterRelease(h, q) == IF OtherHolders(h) = {} THEN <<>> ELSE q

\* Drop::drop is entered: the loop `while self.turn() {}` starts.
Drop(h) ==
    /\ Usable(h)
    /\ indrop' = [indrop EXCEPT ![h] = TRUE]
    /\ UNCHANGED <<waiters, version, tx, rx, data, assigned, sends, hstate, pc, w,
                   unwinding, aborted>>

\* A context whose turn() panicked unwinds and drops the handle it owns.
UnwindDrop(h) ==
    /\ ~aborted
    /\ hstate[h] = "alive"
    /\ pc[h] = "panicked"
    /\ ~indrop[h]
    /\ indrop' = [indrop EXCEPT ![h] = TRUE]
    /\ unwinding' = [unwinding EXCEPT ![h] = TRUE]
    /\ pc' = [pc EXCEPT ![h] = "idle"]
    /\ UNCHANGED <<waiters, version, tx, rx, data, assigned, sends, hstate, w,
                   aborted>>

\* turn, lines 105-108: lock, pop_front, unlock. With None popped, turn returns
\* false (lines 114-116); inside drop that ends the loop and the handle's fields
\* are dropped.
TurnPop(h) ==
    /\ ~aborted
    /\ hstate[h] = "alive"
    /\ pc[h] = "idle"
    /\ LET p == PopFront(waiters) IN
        IF p.waiter # None
        THEN /\ waiters' = p.rest
             /\ w' = [w EXCEPT ![h] = p.waiter]
             /\ tx' = [tx EXCEPT ![p.waiter] = "held"]
             /\ pc' = [pc EXCEPT ![h] = "popped"]
             /\ UNCHANGED <<hstate, indrop>>
        ELSE /\ w' = [w EXCEPT ![h] = None]
             /\ IF indrop[h]
                THEN /\ hstate' = [hstate EXCEPT ![h] = "dropped"]
                     /\ indrop' = [indrop EXCEPT ![h] = FALSE]
                     /\ tx' = SendersAfterRelease(h, tx, p.rest)
                     /\ waiters' = QueueAfterRelease(h, p.rest)
                ELSE /\ waiters' = p.rest
                     /\ UNCHANGED <<hstate, indrop, tx>>
             /\ UNCHANGED pc
    /\ UNCHANGED <<version, rx, data, assigned, sends, unwinding, aborted>>

\* Mutant of TurnFetchAdd: the counter is incremented only when the Waiter of
\* the popped slot still exists, so a failed delivery consumes no number.
TurnFetchAddIfAlive(h) ==
    /\ ~aborted
    /\ pc[h] = "popped"
    /\ assigned' = [assigned EXCEPT ![w[h]] = version]
    /\ version' = IF rx[w[h]] = "alive" THEN FetchAdd(version) ELSE version
    /\ pc' = [pc EXCEPT ![h] = "versioned"]
    /\ UNCHANGED <<waiters, tx, rx, data, sends, hstate, w, indrop, unwinding,
                   aborted>>

\* turn, line 111: version.fetch_add(1, SeqCst), outside the lock.
TurnFetchAdd(h) ==
    /\ ~aborted
    /\ pc[h] = "popped"
    /\ assigned' = [assigned EXCEPT ![w[h]] = version]
    /\ version' = FetchAdd(version)
    /\ pc' = [pc EXCEPT ![h] = "versioned"]
    /\ UNCHANGED <<waiters, tx, rx, data, sends, hstate, w, indrop, unwinding,
                   aborted>>

\* turn, lines 112-113: w.send(version).expect(..), then `true`. A send to a
\* discarded Waiter returns Err and expect panics: in an explicit turn the
\* context starts unwinding; inside drop the unwinding drops the handle's
\* fields; inside a drop that itself runs during unwinding the process aborts.
TurnSend(h) ==
    /\ ~aborted
    /\ pc[h] = "versioned"
    /\ LET i == w[h] IN
        /\ sends' = [sends EXCEPT ![i] = @ + 1]
        /\ w' = [w EXCEPT ![h] = None]
        /\ IF SendOk(i)
           THEN /\ data' = [data EXCEPT ![i] = assigned[i]]
                /\ pc' = [pc EXCEPT ![h] = "idle"]
                /\ IF indrop[h] /\ ~LoopAgain(TRUE)
                   THEN /\ hstate' = [hstate EXCEPT ![h] = "dropped"]
                        /\ indrop' = [indrop EXCEPT ![h] = FALSE]
                        /\ tx' = SendersAfterRelease(h, [tx EXCEPT ![i] = "sent"], waiters)
                        /\ waiters' = QueueAfterRelease(h, waiters)
                   ELSE /\ tx' = [tx EXCEPT ![i] = "sent"]
                        /\ UNCHANGED <<hstate, indrop, waiters>>
                /\ UNCHANGED aborted
           ELSE /\ pc' = [pc EXCEPT ![h] = "panicked"]
                /\ UNCHANGED data
                /\ IF indrop[h] /\ unwinding[h]
                   THEN /\ aborted' = TRUE
                        /\ tx' = [tx EXCEPT ![i] = "failed"]
                        /\ UNCHANGED <<hstate, indrop, waiters>>
                   ELSE IF indrop[h]
                   THEN /\ hstate' = [hstate EXCEPT ![h] = "dropped"]
                        /\ indrop' = [indrop EXCEPT ![h] = FALSE]
                        /\ tx' = SendersAfterRelease(h, [tx EXCEPT ![i] = "failed"], waiters)
                        /\ waiters' = QueueAfterRelease(h, waiters)
                        /\ UNCHANGED aborted
                   ELSE /\ tx' = [tx EXCEPT ![i] = "failed"]
                        /\ UNCHANGED <<hstate, indrop, waiters, aborted>>
    /\ UNCHANGED <<version, rx, assigned, unwinding>>

\* What Waiter::poll (line 60: oneshot::Receiver::poll, the error mapped to ())
\* returns for slot i: NotReady until the sender is used up, then the value
\* stored in the channel, or an error when there is none.
PollResult(i) ==
    IF tx[i] \in {"sent", "failed", "dropped"}
    THEN IF data[i] # NoValue THEN Ready(i, data[i]) ELSE PollErr(i)
    ELSE NotReady(i)

\* Waiter::poll: a delivered value is taken out of the channel by the poll
\* that returns it.
Poll(i) ==
    /\ ~aborted
    /\ rx[i] = "alive"
    /\ data' = [data EXCEPT ![i] = NoValue]
    /\ UNCHANGED <<waiters, version, tx, rx, assigned, sends, hstate, pc, w, indrop,
                   unwinding, aborted>>

\* The participant drops its Waiter (the receiver half) and what is in it.
Discard(i) ==
    /\ ~aborted
    /\ rx[i] = "alive"
    /\ rx' = [rx EXCEPT ![i] = "discarded"]
    /\ data' = [data EXCEPT ![i] = NoValue]
    /\ UNCHANGED <<waiters, version, tx, assigned, sends, hstate, pc, w, indrop,
                   unwinding, aborted>>

\* Concurrent use: the contexts interleave at every step, a critical section
\* (lock, push_back or pop_front, unlock) being one step, so that the Mutex is
\* free in every state. What the calls return is not recorded.
Next ==
    \/ \E h \in Handles, g \in Handles : Clone(h, g) /\ UNCHANGED <<obs, held>>
    \/ \E h \in Handles : Joined < MaxConcJoins /\ Join(h) /\ UNCHANGED <<obs, held>>
    \/ \E h \in Handles : TurnPop(h) /\ UNCHANGED <<obs, held>>
    \/ \E h \in Handles : TurnFetchAdd(h) /\ UNCHANGED <<obs, held>>
    \/ \E h \in Handles : TurnSend(h) /\ UNCHANGED <<obs, held>>
    \/ \E h \in Handles : Drop(h) /\ UNCHANGED <<obs, held>>
    \/ \E h \in Handles : UnwindDrop(h) /\ UNCHANGED <<obs, held>>
    \/ \E i \in Slots : Poll(i) /\ UNCHANGED <<obs, held>>
    \/ \E i \in Slots : Discard(i) /\ UNCHANGED <<obs, held>>

Spec == Init /\ [][Next]_vars

\* A context that is inside turn() or inside drop().
Busy(g) == hstate[g] = "alive" /\ (pc[g] \in {"popped", "versioned"} \/ indrop[g])

\* No context other than h is inside a call.
Quiet(h) == \A g \in Handles \ {h} : ~Busy(g)

\* No context is inside a call.
AllQuiet == \A g \in Handles : ~Busy(g)

\* A call that returns nothing the caller looks at: clone, join, dropping a
\* handle or a Waiter, and the steps inside turn().
ObserveNothing(r) ==
    /\ returned' = r
    /\ UNCHANGED <<turned, drained>>

\* The caller observes turn() return false (lines 114-116) when None was popped.
ObserveTurnPop(h) ==
    /\ returned' = IF PopFront(waiters).waiter = None THEN TurnReturned("false")
                   ELSE returned
    /\ UNCHANGED <<turned, drained>>

\* The caller observes turn() return true (line 113), or panic (line 112).
ObserveTurnSend(h) ==
    /\ returned' = IF SendOk(w[h]) THEN TurnReturned("true") ELSE TurnReturned("panic")
    /\ turned' = IF SendOk(w[h]) THEN turned + 1 ELSE turned
    /\ drained' = [drained EXCEPT ![h] = IF SendOk(w[h]) /\ indrop[h] THEN @ + 1 ELSE @]

\* The caller observes what poll returns (line 60).
ObservePoll(i) ==
    /\ returned' = PollResult(i)
    /\ UNCHANGED <<turned, drained>>

\* Sequential use: one call at a time, on any of the handles; the steps of a
\* call are not interleaved with anything else, and the caller observes what
\* each call returns.
SeqNext ==
    \/ \E h \in Handles, g \in Handles :
            Quiet(h) /\ Clone(h, g) /\ ObserveNothing(NoReturn)
            /\ UNCHANGED held
    \/ \E h \in Handles : Quiet(h) /\ Join(h) /\ ObserveNothing(NoReturn)
            /\ UNCHANGED held
    \/ \E h \in Handles : Quiet(h) /\ TurnPop(h) /\ ObserveTurnPop(h)
            /\ UNCHANGED held
    \/ \E h \in Handles : Quiet(h) /\ TurnFetchAdd(h) /\ ObserveNothing(returned)
            /\ UNCHANGED held
    \/ \E h \in Handles : Quiet(h) /\ TurnSend(h) /\ ObserveTurnSend(h)
            /\ UNCHANGED held
    \/ \E h \in Handles : Quiet(h) /\ Drop(h) /\ ObserveNothing(NoReturn)
            /\ UNCHANGED held
    \/ \E h \in Handles : Quiet(h) /\ UnwindDrop(h) /\ ObserveNothing(returned)
            /\ UNCHANGED held
    \/ \E i \in Slots : AllQuiet /\ Poll(i) /\ ObservePoll(i)
            /\ UNCHANGED held
    \/ \E i \in Slots : AllQuiet /\ Discard(i) /\ ObserveNothing(NoReturn)
            /\ UNCHANGED held

SeqSpec == Init /\ [][SeqNext]_vars

\* No Waiter has been discarded.
NoDiscard == \A i \in Slots : rx[i] # "discarded"

\* The Waiters that are ready: their sender's send returned Ok.
ReadySlots == {i \in Slots : tx[i] = "sent"}

\* C1: in sequential use with no Waiter discarded, the Waiter of the k-th join
\* resolves with k - 1: the value fetched for slot k, the value stored in its
\* channel and the value its poll returns are all k - 1.
C1_KthWaiterGetsKMinus1 ==
    NoDiscard =>
        /\ \A i \in Slots :
                tx[i] = "sent" => assigned[i] = i - 1 /\ data[i] \in {i - 1, NoValue}
        /\ returned.ret = "Ready" => returned.val = returned.slot - 1

\* C1 witness: all MaxJoins Waiters were fired, the first one's value was taken
\* by a poll and the last one has just polled Ready(MaxJoins - 1).
C1_Witness ==
    /\ NoDiscard
    /\ turned = MaxJoins
    /\ data[1] = NoValue
    /\ returned = Ready(MaxJoins, MaxJoins - 1)

C3_DropResolvesAllInOrder ==
    [][\A h \in Handles :
        NoDiscard =>
            /\ (~indrop[h] /\ indrop'[h]) =>
                    \A p \in 1..Len(waiters) : waiters[p] = version + p
            /\ (indrop[h] /\ indrop'[h]) =>
                    {i \in Slots : tx'[i] = "sent"} = 1..turned'
            /\ (indrop[h] /\ ~indrop'[h]) =>
                    /\ waiters' = <<>>
                    /\ hstate'[h] = "dropped"
                    /\ turned' = Joined
                    /\ version' = Joined
                    /\ \A i \in 1..Joined : tx'[i] = "sent" /\ assigned'[i] = i - 1
                    /\ \A i \in (Joined - drained[h] + 1)..Joined : data'[i] = i - 1
      ]_vars

\* C3 witness: every handle is gone, and the drop of one of them found all the
\* MaxJoins Waiters pending and fired them all.
C3_Witness ==
    /\ NoDiscard
    /\ \A h \in Handles : hstate[h] # "alive"
    /\ \E h \in Handles : hstate[h] = "dropped" /\ drained[h] = MaxJoins
    /\ waiters = <<>>
    /\ \A i \in Slots : tx[i] = "sent" /\ data[i] = i - 1

\* C4: a turn() that popped a slot whose Waiter is discarded completes normally
\* and returns true.
C4_TurnOnDiscardedReturnsTrue ==
    [][\A h \in Handles :
        (pc[h] = "versioned" /\ pc'[h] # "versioned" /\ rx[w[h]] = "discarded") =>
            (returned' = TurnReturned("true") /\ pc'[h] = "idle")
      ]_vars

\* C5: discarding a Waiter does not affect the others: the discard leaves the
\* queue and the counter alone, and every Waiter that is kept is never left
\* with a sender destroyed unfired, gets its position number when it is
\* fired, and is fired by the time every handle is gone.
C5_DiscardDoesNotAffectOthers ==
    [][/\ rx' # rx /\ Joined' = Joined => waiters' = waiters /\ version' = version
       /\ \A i \in Slots :
            rx'[i] = "alive" =>
                /\ tx'[i] \in {"queued", "held", "sent"}
                /\ tx'[i] = "sent" => assigned'[i] = i - 1
                /\ (\A h \in Handles : hstate'[h] # "alive") => tx'[i] = "sent"
      ]_vars

\* The slots that were popped from the queue by a turn.
Popped == {i \in Slots : tx[i] \in {"held", "sent", "failed"}}

\* The contexts that are inside turn() holding slot i.
Holders(i) == {h \in Handles : pc[h] \in {"popped", "versioned"} /\ w[h] = i}

\* C6: in every interleaving of turn() calls and drop loops on any handles, no
\* slot is fired twice, no popped slot is skipped (it is owned by exactly one
\* running turn until that turn has called send on it, once), a queued slot
\* is in the queue exactly once, and no two slots get the same number.
C6_NoDoubleFireNoSkipNoRepeat ==
    /\ \A i \in Slots : sends[i] <= 1
    /\ \A i \in Slots :
        /\ tx[i] = "held" => Cardinality(Holders(i)) = 1 /\ sends[i] = 0
        /\ tx[i] \in {"sent", "failed"} => Holders(i) = {} /\ sends[i] = 1
        /\ tx[i] = "queued" =>
                Cardinality({p \in 1..Len(waiters) : waiters[p] = i}) = 1
        /\ tx[i] \in {"none", "queued", "dropped"} => sends[i] = 0
    /\ \A p \in 1..Len(waiters) : tx[waiters[p]] = "queued"
    /\ \A i \in Popped, j \in Popped :
            (i # j /\ assigned[i] # NoValue /\ assigned[j] # NoValue) =>
                assigned[i] # assigned[j]

\* C6 witness: two turns ran at the same time on two handles and both slots
\* were fired, once each, the second-joined one with the smaller number.
C6_Witness ==
    /\ sends[1] = 1 /\ sends[2] = 1
    /\ assigned[1] = 1 /\ assigned[2] = 0

\* C7: in every interleaving of turn() calls, the k-th joined Waiter is given
\* the number k - 1.
C7_NumbersFollowJoinOrder ==
    \A i \in Slots : assigned[i] # NoValue => assigned[i] = i - 1

\* C8: in every interleaving, no later-joined Waiter has been notified while an
\* earlier-joined one is still not notified.
C8_NotifiedInJoinOrder ==
    \A i \in Slots, j \in Slots : (i < j /\ sends[j] > 0) => sends[i] > 0

\* C9: the drop of a handle while another handle of the same Turnstyle is
\* alive fires nothing and leaves the queue and the counter unchanged.
C9_OnlyLastDropDrains ==
    [][\A h \in Handles :
        (indrop[h] /\ OtherHolders(h) # {} /\ pc'[h] # pc[h]) =>
            (waiters' = waiters /\ version' = version /\ sends' = sends)
      ]_vars

\* Fair scheduling: a call that has started runs to its end, and every handle
\* is eventually dropped.
Fairness ==
    \A h \in Handles :
        /\ WF_vars(indrop[h] /\ TurnPop(h) /\ UNCHANGED <<obs, held>>)
        /\ WF_vars(TurnFetchAdd(h) /\ UNCHANGED <<obs, held>>)
        /\ WF_vars(TurnSend(h) /\ UNCHANGED <<obs, held>>)
        /\ WF_vars(Drop(h) /\ UNCHANGED <<obs, held>>)
        /\ WF_vars(UnwindDrop(h) /\ UNCHANGED <<obs, held>>)

FairSpec == Init /\ [][Next]_vars /\ Fairness

\* C10: under fair scheduling, with every handle eventually dropped, every
\* Waiter that is kept eventually becomes ready with a value.
C10_KeptWaiterEventuallyReady ==
    \A i \in Slots :
        [](tx[i] = "queued" => <>(tx[i] = "sent" \/ rx[i] = "discarded"))

\* C11: over every sequence of join, turn, clone, handle-drop and
\* Waiter-discard operations, no sender is destroyed without having been
\* fired, so no Waiter resolves with an error.
C11_NoSenderDestroyedUnfired ==
    \A i \in Slots : tx[i] # "dropped"

\* C12: with the queue empty and no turn() in progress no turn() pops a slot
\* or returns true, and the step in which a turn() returns false found the
\* queue empty and changes
\* neither the counter, nor the queue, nor any sender, Waiter or channel.
C12_TurnOnEmptyIsNoop ==
    [][/\ (waiters = <<>> /\ \A h \in Handles : pc[h] = "idle") =>
            /\ \A h \in Handles : pc'[h] = "idle"
            /\ returned' # returned => returned'.ret # "true"
       /\ (returned' = TurnReturned("false") /\ returned # returned') =>
            /\ waiters = <<>>
            /\ UNCHANGED <<waiters, version, tx, rx, data, assigned, sends, pc, w>>
            /\ turned' = turned
      ]_vars

\* C12 witness: two Waiters were fired, the queue is empty, and an explicit
\* turn() on a handle that is still alive has just returned false.
C12_Witness ==
    /\ returned = TurnReturned("false")
    /\ waiters = <<>>
    /\ version = 2
    /\ \E h \in Handles : hstate[h] = "alive" /\ drained[h] = 0

\* C13: in sequential use a turn() returns false only when the queue is empty,
\* and a turn() on a non-empty queue removes exactly the head and leaves the
\* rest in order, increments the counter by exactly one, fires the popped slot
\* with the counter's previous value, and returns true.
C13_TurnOnNonEmptyFiresHead ==
    [][/\ (returned' = TurnReturned("false") /\ returned # returned') =>
            waiters = <<>>
       /\ \A h \in Handles :
            /\ (pc[h] = "idle" /\ pc'[h] = "popped") =>
                    /\ waiters # <<>>
                    /\ w'[h] = Head(waiters)
                    /\ waiters' = Tail(waiters)
                    /\ version' = version
            /\ (pc[h] = "popped" /\ pc'[h] # "popped") =>
                    /\ pc'[h] = "versioned"
                    /\ version' = version + 1
                    /\ assigned'[w[h]] = version
                    /\ waiters' = waiters
            /\ (pc[h] = "versioned" /\ pc'[h] # "versioned") =>
                    /\ pc'[h] = "idle"
                    /\ returned' = TurnReturned("true")
                    /\ tx'[w[h]] = "sent"
                    /\ sends'[w[h]] = 1
                    /\ version' = version
                    /\ waiters' = waiters
      ]_vars

\* C14: a poll of a Waiter that directly follows a poll of the same Waiter
\* which returned the delivered value returns that same value again.
C14_PollAfterReadyIsIdempotent ==
    [][(returned.ret = "Ready" /\ returned'.call = "poll"
            /\ returned'.slot = returned.slot) =>
        returned' = returned
      ]_vars

\* Mutant of Unlock: the guard outlives the block, the Mutex stays locked.
KeepLocked(l) == l

\* The MutexGuard goes out of scope at the end of the block (lines 95 and 108).
Unlock(l) == NoLock

\* A context panics on lock().unwrap() / lock().expect(..) of a poisoned Mutex
\* (lines 93 and 106): outside drop it starts unwinding; inside drop the handle's
\* fields are dropped; inside a drop that runs during unwinding the process
\* aborts.
LockPanic(h) ==
    IF indrop[h] /\ unwinding[h]
    THEN /\ aborted' = TRUE
         /\ UNCHANGED <<waiters, version, tx, rx, data, assigned, sends, hstate, pc,
                        w, indrop, unwinding>>
    ELSE IF indrop[h]
    THEN /\ hstate' = [hstate EXCEPT ![h] = "dropped"]
         /\ indrop' = [indrop EXCEPT ![h] = FALSE]
         /\ tx' = SendersAfterRelease(h, tx, waiters)
         /\ waiters' = QueueAfterRelease(h, waiters)
         /\ UNCHANGED <<version, rx, data, assigned, sends, pc, w, unwinding, aborted>>
    ELSE /\ pc' = [pc EXCEPT ![h] = "panicked"]
         /\ UNCHANGED <<waiters, version, tx, rx, data, assigned, sends, hstate, w,
                        indrop, unwinding, aborted>>

\* join, line 93: self.waiters.lock().expect(..). The caller waits while
\* another context holds the Mutex.
JoinLock(h) ==
    /\ Usable(h)
    /\ Joined < MaxConcJoins
    /\ lock = NoLock
    /\ IF poisoned
       THEN LockPanic(h) /\ UNCHANGED lock
       ELSE lock' = LockedBy(h, "join") /\ UNCHANGED pvars
    /\ UNCHANGED poisoned

\* join, lines 94-97: push_back under the lock, the guard dropped, the Waiter
\* returned.
JoinPush(h) ==
    /\ lock = LockedBy(h, "join")
    /\ Join(h)
    /\ lock' = Unlock(lock)
    /\ UNCHANGED poisoned

\* turn, line 106: self.waiters.lock().unwrap().
TurnLock(h) ==
    /\ ~aborted
    /\ hstate[h] = "alive"
    /\ pc[h] = "idle"
    /\ lock = NoLock
    /\ IF poisoned
       THEN LockPanic(h) /\ UNCHANGED lock
       ELSE lock' = LockedBy(h, "turn") /\ UNCHANGED pvars
    /\ UNCHANGED poisoned

\* turn, lines 107-108: pop_front under the lock, the guard dropped.
TurnPopUnlock(h) ==
    /\ lock = LockedBy(h, "turn")
    /\ TurnPop(h)
    /\ lock' = Unlock(lock)
    /\ UNCHANGED poisoned

\* turn, lines 112-113, with the Mutex: a panic of expect (line 112) in a
\* context that holds the guard poisons the Mutex and releases it.
TurnSendLocked(h) ==
    /\ TurnSend(h)
    /\ IF lock.holder = h /\ ~SendOk(w[h])
       THEN lock' = NoLock /\ poisoned' = TRUE
       ELSE UNCHANGED <<lock, poisoned>>

\* Concurrent use with the Mutex taken and released in steps of their own: a
\* context that holds the Mutex is inside a critical section and starts no
\* other call.
LockNext ==
    \/ \E h \in Handles, g \in Handles :
            lock.holder # h /\ Clone(h, g) /\ UNCHANGED <<obs, held>>
    \/ \E h \in Handles : JoinLock(h) /\ UNCHANGED obs
    \/ \E h \in Handles : JoinPush(h) /\ UNCHANGED obs
    \/ \E h \in Handles : TurnLock(h) /\ UNCHANGED obs
    \/ \E h \in Handles : TurnPopUnlock(h) /\ UNCHANGED obs
    \/ \E h \in Handles : TurnFetchAdd(h) /\ UNCHANGED <<obs, held>>
    \/ \E h \in Handles : TurnSendLocked(h) /\ UNCHANGED obs
    \/ \E h \in Handles : lock.holder # h /\ Drop(h) /\ UNCHANGED <<obs, held>>
    \/ \E h \in Handles : UnwindDrop(h) /\ UNCHANGED <<obs, held>>
    \/ \E i \in Slots : Poll(i) /\ UNCHANGED <<obs, held>>
    \/ \E i \in Slots : Discard(i) /\ UNCHANGED <<obs, held>>

LockSpec == Init /\ [][LockNext]_vars

\* The slots whose sender was destroyed with the queue, unfired.
Destroyed == {i \in Slots : tx[i] = "dropped"}

\* The slots for which a join has completed (its Waiter was returned).
CompletedJoins == {i \in Slots : rx[i] # "none"}

\* C15: in every interleaving of joins and turns through any handles, each
\* completed join has put one distinct slot in the queue: the slots pending,
\* popped or destroyed with the queue are as many as the completed joins, no
\* slot is in the queue twice or both pending and popped, and while a handle
\* is alive no slot was destroyed (pending plus popped equals the joins).
C15_EachJoinAppendsOneSlot ==
    /\ Len(waiters) + Cardinality(Popped) + Cardinality(Destroyed)
            = Cardinality(CompletedJoins)
    /\ \A p \in 1..Len(waiters), q \in 1..Len(waiters) :
            p # q => waiters[p] # waiters[q]
    /\ \A p \in 1..Len(waiters) :
            waiters[p] \in CompletedJoins /\ waiters[p] \notin Popped
    /\ (\E h \in Handles : hstate[h] = "alive") => Destroyed = {}

\* C15 witness: two joins have completed through two live handles and one of
\* the handles is inside a turn() that popped the first slot.
C15_Witness ==
    /\ Cardinality(CompletedJoins) = 2
    /\ waiters = <<2>>
    /\ hstate[1] = "alive" /\ hstate[2] = "alive"
    /\ pc[2] = "popped" /\ w[2] = 1

\* C16: join never fails: the Mutex is never poisoned, so lock().expect(..)
\* in join never panics, also after a turn() panicked on a discarded Waiter;
\* and the step that completes a join creates exactly one slot, appends it at
\* the tail, leaves its caller running, and changes neither the counter nor
\* any other slot.
C16_JoinAlwaysSucceeds ==
    [][/\ ~poisoned /\ ~poisoned'
       /\ lock.call = "join" => pc'[lock.holder] = "idle"
       /\ CompletedJoins' # CompletedJoins =>
            \E i \in Slots :
                /\ CompletedJoins' = CompletedJoins \cup {i}
                /\ i \notin CompletedJoins
                /\ waiters' = Append(waiters, i)
                /\ version' = version
                /\ tx[i] = "none" /\ tx'[i] = "queued"
                /\ \A j \in Slots \ {i} : tx'[j] = tx[j] /\ rx'[j] = rx[j]
                /\ UNCHANGED <<data, assigned, sends, pc, hstate>>
      ]_vars

\* C16 witness: a turn() has panicked on the discarded first Waiter and left
\* its context unwinding, and the second slot is queued through the other
\* handle, with the Mutex free and not poisoned.
C16_Witness ==
    /\ pc[1] = "panicked" /\ tx[1] = "failed"
    /\ hstate[2] = "alive"
    /\ waiters = <<2>> /\ tx[2] = "queued" /\ rx[2] = "alive"
    /\ version = 1
    /\ lock = NoLock /\ ~poisoned

\* C17: the Mutex is not held by a context that is at fetch_add, at send or
\* unwinding; whoever holds it is a live context inside the critical section
\* of join or of turn; it is only taken when free (no nested locking); and a
\* step of a Waiter (a poll or a discard) neither takes nor releases it.
C17_LockNotHeldAcrossSend ==
    [][/\ \A h \in Handles :
            pc[h] \in {"popped", "versioned", "panicked"} => lock.holder # h
       /\ lock # NoLock =>
            /\ lock.holder \in Handles /\ lock.call \in {"join", "turn"}
            /\ hstate[lock.holder] = "alive" /\ pc[lock.holder] = "idle"
            /\ ~aborted
            /\ lock.call = "join" => ~indrop[lock.holder]
       /\ (lock' # lock /\ lock' # NoLock) => lock = NoLock
       /\ ((rx' # rx /\ tx' = tx) \/ (data' # data /\ sends' = sends)) =>
            lock' = lock
      ]_vars

\* C17 witness: one context is about to send its notification while another
\* context holds the Mutex inside join.
C17_Witness ==
    /\ pc[1] = "versioned"
    /\ lock = LockedBy(2, "join")

\* The contexts whose turn() has popped a slot and not yet incremented the
\* counter.
PoppedNotCounted == {h \in Handles : pc[h] = "popped"}

\* C18: the counter never decreases, and while the Turnstyle exists (a handle
\* is alive) the completed joins are as many as the queue length plus the
\* counter plus the turns that have popped a slot and not yet incremented the
\* counter; with no turn between its pop and its send the counter equals the
\* number of slots popped so far.
C18_CounterAccounting ==
    [][/\ version >= 0 /\ version' >= version
       /\ (\E h \in Handles : hstate[h] = "alive") =>
            /\ Cardinality(CompletedJoins)
                    = Len(waiters) + version + Cardinality(PoppedNotCounted)
            /\ (\A h \in Handles : pc[h] \notin {"popped", "versioned"}) =>
                    version = Cardinality(Popped)
      ]_vars

\* C18 witness: of two turns running at the same time, one has incremented
\* the counter and the other has popped its slot and not yet incremented it.
C18_Witness ==
    /\ pc[1] = "popped" /\ pc[2] = "versioned"
    /\ waiters = <<>>
    /\ version = 1
    /\ Cardinality(CompletedJoins) = 2

\* C19: in sequential use, also with Waiters discarded, every popped slot
\* consumes a number: the counter is incremented before send is attempted,
\* a slot whose delivery failed has used up its position number, every
\* Waiter that is fired receives its all-time join position, and no number
\* is given to two slots.
C19_FailedDeliveryConsumesNumber ==
    /\ \A h \in Handles :
            pc[h] = "versioned" =>
                /\ sends[w[h]] = 0
                /\ assigned[w[h]] = w[h] - 1
                /\ version = w[h]
    /\ \A i \in Slots :
            /\ tx[i] \in {"sent", "failed"} => assigned[i] = i - 1 /\ version >= i
            /\ (tx[i] = "sent" /\ rx[i] = "alive") => data[i] \in {i - 1, NoValue}
    /\ returned.ret = "Ready" => returned.val = returned.slot - 1
    /\ \A i \in Slots, j \in Slots :
            (i # j /\ assigned[i] # NoValue) => assigned[i] # assigned[j]

\* C19 witness: the turn() on the discarded first Waiter failed, a later
\* turn() fired the second Waiter, and its poll has just returned 1.
C19_Witness ==
    /\ rx[1] = "discarded" /\ tx[1] = "failed"
    /\ tx[2] = "sent"
    /\ returned = Ready(2, 1)

\* C20: under fair scheduling, with finitely many joins, the drop of a handle
\* ends (or the process aborts in it), and its loop ends only by a panic or by
\* a turn() that found the queue empty and returned false.
C20_DropTerminates ==
    /\ \A h \in Handles : indrop[h] ~> (~indrop[h] \/ aborted)
    /\ [][\A h \in Handles :
            (indrop[h] /\ ~indrop'[h]) =>
                /\ hstate'[h] = "dropped"
                /\ pc'[h] = "idle" => (pc[h] = "idle" /\ waiters = <<>>)
         ]_vars

\* C20 witness: every handle has been dropped, no drop panicked, and both
\* Waiters joined were fired.
C20_Witness ==
    /\ \A h \in Handles : hstate[h] = "dropped" /\ pc[h] = "idle"
    /\ Cardinality(CompletedJoins) = MaxConcJoins
    /\ \A i \in CompletedJoins : tx[i] = "sent"

====
